---- MODULE Spec2Model ----
(***************************************************************************)
(* A model of go-tablewriter: the Table row store (tablewriter.go), the    *)
(* Options builder (options.go) and the rendering engine (render,          *)
(* colWidths, applyCellOpts, alignCell and the five serializers).          *)
(*                                                                         *)
(* A Go string is modelled as the sequence of its code points, each code   *)
(* point a one-element string ("a", ",", "\n"); the box-drawing code       *)
(* points, which the module's character set cannot spell, are named        *)
(* tokens ("BOX_H" for U+2500 and so on), one token per code point, so     *)
(* that Len is utf8.RuneCountInString.  Go slices are indexed from 0 and   *)
(* the sequences here from 1: column i of the code is column i+1 here.     *)
(***************************************************************************)
EXTENDS Integers, Sequences, FiniteSets, TLC

VARIABLES t, op, arg, ret, appended

vars == <<t, op, arg, ret, appended>>

(***************************************************************************)
(* Bounds of the model.                                                    *)
(***************************************************************************)
\* rows a Table holds at most (the store machine's cap)
MaxRows == 3
\* cells of a row and headers of a Table at most, in the store machine
MaxCols == 2
\* rows of one package-level Render call at most
MaxRenderRows == 2
\* cells of a row and headers at most, in a package-level Render call
MaxRenderCols == 2
\* the longest cell value normalised on its own
MaxCellLen == 6
\* the largest MaxColumnWidth tried
MaxWidth == 5
\* rows of one CSV rendering at most
MaxCSVRows == 2
\* cells of a row at most, in a CSV rendering
MaxCSVCols == 2
\* entries of Options.Alignments at most, where a cell is aligned on its own
MaxAligns == 2

(***************************************************************************)
(* Program constants.                                                      *)
(***************************************************************************)
FormatPlain == 0
FormatMarkdown == 1
FormatCSV == 2
FormatJSON == 3
FormatSimple == 4

AlignLeft == 0
AlignCenter == 1
AlignRight == 2

Formats == {FormatPlain, FormatMarkdown, FormatCSV, FormatJSON, FormatSimple}
Alignment == {AlignLeft, AlignCenter, AlignRight}

ErrNil == "nil"
ErrMissingHeaders == "tablewriter: JSON format requires headers"
ErrColumnMismatch == "tablewriter: row column count does not match header count"

(***************************************************************************)
(* Strings.                                                                *)
(***************************************************************************)
Max(a, b) == IF a > b THEN a ELSE b

RuneCountInString(s) == Len(s)

\* strings.Repeat(c, n) for a one-code-point string c
Repeat(c, n) == [i \in 1..n |-> c]

\* the concatenation of a sequence of strings
RECURSIVE Concat(_)
Concat(ss) == IF ss = <<>> THEN <<>> ELSE Head(ss) \o Concat(Tail(ss))

\* strings.Join(ss, sep)
RECURSIVE Join(_, _)
Join(ss, sep) ==
    IF ss = <<>> THEN <<>>
    ELSE IF Len(ss) = 1 THEN ss[1]
    ELSE ss[1] \o sep \o Join(Tail(ss), sep)

Ellipsis == <<".", ".", ".">>
Quote == "\""
NL == "\n"

(***************************************************************************)
(* options.go                                                              *)
(***************************************************************************)
DefaultOptions ==
    [Headers |-> <<>>, Format |-> FormatPlain, Alignments |-> <<>>,
     MaxColumnWidth |-> 0, NullPlaceholder |-> <<>>, StrictColumnCount |-> FALSE]

WithHeaders(o, headers) == [o EXCEPT !.Headers = headers]
WithFormat(o, f) == [o EXCEPT !.Format = f]
WithAlignments(o, a) == [o EXCEPT !.Alignments = a]
WithMaxColumnWidth(o, w) == [o EXCEPT !.MaxColumnWidth = w]
WithNullPlaceholder(o, s) == [o EXCEPT !.NullPlaceholder = s]
WithStrictColumnCount(o) == [o EXCEPT !.StrictColumnCount = TRUE]

(***************************************************************************)
(* Cell normalisation, widths and alignment.                               *)
(***************************************************************************)
applyCellOpts_NoEllipsisGuard(v, opts) ==
    LET v1 == IF v = <<>> /\ opts.NullPlaceholder # <<>>
              THEN opts.NullPlaceholder ELSE v
        n == opts.MaxColumnWidth
    IN  IF n > 0 /\ RuneCountInString(v1) > n
        THEN SubSeq(v1, 1, Max(n - 3, 0)) \o Ellipsis
        ELSE v1

applyCellOpts(v, opts) ==
    LET v1 == IF v = <<>> /\ opts.NullPlaceholder # <<>>
              THEN opts.NullPlaceholder ELSE v
        n == opts.MaxColumnWidth
    IN  IF n > 0 /\ RuneCountInString(v1) > n
        THEN IF n > 3
             THEN SubSeq(v1, 1, n - 3) \o Ellipsis
             ELSE SubSeq(v1, 1, n)
        ELSE v1

\* the maximum of a finite set of naturals, 0 for the empty set
SetMax(S) == IF S = {} THEN 0 ELSE CHOOSE m \in S : \A k \in S : k <= m

\* numCols of colWidths: the header count or the longest row
NumCols(opts, rows) ==
    SetMax({Len(opts.Headers)} \cup {Len(rows[r]) : r \in 1..Len(rows)})

colWidths(opts, rows) ==
    [i \in 1..NumCols(opts, rows) |->
        LET hw == IF i <= Len(opts.Headers)
                  THEN {RuneCountInString(opts.Headers[i])} ELSE {}
            cw == {RuneCountInString(applyCellOpts(rows[r][i], opts)) :
                       r \in {k \in 1..Len(rows) : i <= Len(rows[k])}}
            w  == SetMax(hw \cup cw)
        IN  IF opts.MaxColumnWidth > 0 /\ w > opts.MaxColumnWidth
            THEN opts.MaxColumnWidth ELSE w]

\* alignCell giving the odd space of a centred cell to the left
alignCell_CenterExtraLeft(s, width, align) ==
    LET slen == RuneCountInString(s)
        pad  == width - slen
    IN  IF pad <= 0 THEN s
        ELSE IF align = AlignRight THEN Repeat(" ", pad) \o s
        ELSE IF align = AlignCenter
             THEN LET right == pad \div 2
                      left == pad - right
                  IN  Repeat(" ", left) \o s \o Repeat(" ", right)
        ELSE s \o Repeat(" ", pad)

alignCell(s, width, align) ==
    LET slen == RuneCountInString(s)
        pad  == width - slen
    IN  IF pad <= 0 THEN s
        ELSE IF align = AlignRight THEN Repeat(" ", pad) \o s
        ELSE IF align = AlignCenter
             THEN LET left == pad \div 2
                      right == pad - left
                  IN  Repeat(" ", left) \o s \o Repeat(" ", right)
        ELSE s \o Repeat(" ", pad)

getAlign(opts, col) ==
    IF col <= Len(opts.Alignments) THEN opts.Alignments[col] ELSE AlignLeft

\* the value rendered at column i of row r: r[i], or "" past the row's end
cellAt(r, i) == IF i <= Len(r) THEN r[i] ELSE <<>>

\* a data cell as renderPlain, renderMarkdown and renderSimple render it
dataCell(opts, widths, r, i) ==
    alignCell(applyCellOpts(cellAt(r, i), opts), widths[i], getAlign(opts, i))

(***************************************************************************)
(* The serializers.  A result is the pair the Go function returns.         *)
(***************************************************************************)
Result(out, err) == [out |-> out, err |-> err]

\* the box-drawing code points, one token each
BoxH == "BOX_H"
BoxV == "BOX_V"
BoxTopLeft == "BOX_DOWN_RIGHT"
BoxTopMid == "BOX_DOWN_HORIZONTAL"
BoxTopRight == "BOX_DOWN_LEFT"
BoxMidLeft == "BOX_VERTICAL_RIGHT"
BoxMidMid == "BOX_VERTICAL_HORIZONTAL"
BoxMidRight == "BOX_VERTICAL_LEFT"
BoxBotLeft == "BOX_UP_RIGHT"
BoxBotMid == "BOX_UP_HORIZONTAL"
BoxBotRight == "BOX_UP_LEFT"

buildHorizontalBorder(widths, left, mid, right, fill) ==
    <<left>>
    \o Join([i \in 1..Len(widths) |-> Repeat(fill, widths[i] + 2)], <<mid>>)
    \o <<right>>

renderPlain(opts, rows) ==
    LET widths == colWidths(opts, rows)
        n == Len(widths)
        headerCell(i) ==
            IF i <= Len(opts.Headers)
            THEN <<" ">> \o alignCell(applyCellOpts(opts.Headers[i], opts),
                                      widths[i], getAlign(opts, i)) \o <<" ", BoxV>>
            ELSE <<" ">> \o Repeat(" ", widths[i]) \o <<" ", BoxV>>
        header ==
            IF Len(opts.Headers) > 0
            THEN <<NL, BoxV>> \o Concat([i \in 1..n |-> headerCell(i)]) \o <<NL>>
                 \o buildHorizontalBorder(widths, BoxMidLeft, BoxMidMid, BoxMidRight, BoxH)
            ELSE <<>>
        rowText(r) ==
            <<NL, BoxV>>
            \o Concat([i \in 1..n |-> <<" ">> \o dataCell(opts, widths, r, i) \o <<" ", BoxV>>])
    IN  IF n = 0 THEN Result(<<>>, ErrNil)
        ELSE Result(
               buildHorizontalBorder(widths, BoxTopLeft, BoxTopMid, BoxTopRight, BoxH)
               \o header
               \o Concat([k \in 1..Len(rows) |-> rowText(rows[k])])
               \o <<NL>>
               \o buildHorizontalBorder(widths, BoxBotLeft, BoxBotMid, BoxBotRight, BoxH)
               \o <<NL>>,
               ErrNil)

renderMarkdown(opts, rows) ==
    LET widths == colWidths(opts, rows)
        n == Len(widths)
        headerCell(i) ==
            <<" ">> \o alignCell(applyCellOpts(cellAt(opts.Headers, i), opts),
                                 widths[i], getAlign(opts, i)) \o <<" ", "|">>
        sepCell(i) ==
            LET sep == Repeat("-", widths[i])
                align == getAlign(opts, i)
            IN  IF align = AlignRight THEN <<" ">> \o sep \o <<":", "|">>
                ELSE IF align = AlignCenter THEN <<":">> \o sep \o <<":", "|">>
                ELSE <<" ">> \o sep \o <<" ", "|">>
        rowText(r) ==
            <<"|">>
            \o Concat([i \in 1..n |-> <<" ">> \o dataCell(opts, widths, r, i) \o <<" ", "|">>])
            \o <<NL>>
    IN  IF n = 0 THEN Result(<<>>, ErrNil)
        ELSE Result(
               <<"|">> \o Concat([i \in 1..n |-> headerCell(i)]) \o <<NL>>
               \o <<"|">> \o Concat([i \in 1..n |-> sepCell(i)]) \o <<NL>>
               \o Concat([k \in 1..Len(rows) |-> rowText(rows[k])]),
               ErrNil)

\* strings.ContainsAny(c, chars)
ContainsAny(c, chars) == \E i \in 1..Len(c) : c[i] \in chars

\* strings.ReplaceAll(c, old, new) for a one-code-point old
ReplaceAll(c, old, new) ==
    Concat([i \in 1..Len(c) |-> IF c[i] = old THEN new ELSE <<c[i]>>])

\* csvRow quoting a cell without doubling the quotes inside it
csvRow_QuotesNotDoubled(cols) ==
    Join([i \in 1..Len(cols) |->
            IF ContainsAny(cols[i], {Quote, ",", NL})
            THEN <<Quote>> \o cols[i] \o <<Quote>>
            ELSE cols[i]],
         <<",">>)

csvRow(cols) ==
    Join([i \in 1..Len(cols) |->
            IF ContainsAny(cols[i], {Quote, ",", NL})
            THEN <<Quote>> \o ReplaceAll(cols[i], Quote, <<Quote, Quote>>) \o <<Quote>>
            ELSE cols[i]],
         <<",">>)

renderCSV(opts, rows) ==
    LET header == IF Len(opts.Headers) > 0
                  THEN csvRow(opts.Headers) \o <<NL>> ELSE <<>>
        rowText(r) ==
            csvRow([i \in 1..Len(r) |-> applyCellOpts(r[i], opts)]) \o <<NL>>
    IN  Result(header \o Concat([k \in 1..Len(rows) |-> rowText(rows[k])]), ErrNil)

\* renderSimple without the test for zero columns
renderSimple_NoZeroColumnTest(opts, rows) ==
    LET widths == colWidths(opts, rows)
        n == Len(widths)
        headerCell(i) ==
            alignCell(applyCellOpts(cellAt(opts.Headers, i), opts),
                      widths[i], getAlign(opts, i))
        header ==
            IF Len(opts.Headers) > 0
            THEN Join([i \in 1..n |-> headerCell(i)], <<" ", " ">>) \o <<NL>>
                 \o Join([i \in 1..n |-> Repeat("-", widths[i])], <<" ", " ">>) \o <<NL>>
            ELSE <<>>
        rowText(r) ==
            Join([i \in 1..n |-> dataCell(opts, widths, r, i)], <<" ", " ">>) \o <<NL>>
    IN  Result(header \o Concat([k \in 1..Len(rows) |-> rowText(rows[k])]), ErrNil)

renderSimple(opts, rows) ==
    LET widths == colWidths(opts, rows)
        n == Len(widths)
        headerCell(i) ==
            alignCell(applyCellOpts(cellAt(opts.Headers, i), opts),
                      widths[i], getAlign(opts, i))
        header ==
            IF Len(opts.Headers) > 0
            THEN Join([i \in 1..n |-> headerCell(i)], <<" ", " ">>) \o <<NL>>
                 \o Join([i \in 1..n |-> Repeat("-", widths[i])], <<" ", " ">>) \o <<NL>>
            ELSE <<>>
        rowText(r) ==
            Join([i \in 1..n |-> dataCell(opts, widths, r, i)], <<" ", " ">>) \o <<NL>>
    IN  IF n = 0 THEN Result(<<>>, ErrNil)
        ELSE Result(header \o Concat([k \in 1..Len(rows) |-> rowText(rows[k])]), ErrNil)

(***************************************************************************)
(* renderJSON.  encoding/json writes a map's keys sorted by their bytes    *)
(* and a string between quotes with ", \ and the newline escaped; the      *)
(* code points of CodePointOrder, in code-point order, are the ones the    *)
(* model's strings are made of (all below U+0080, so byte order is         *)
(* code-point order).                                                      *)
(***************************************************************************)
CodePointOrder ==
    <<NL, " ", Quote, ",", "-", ".", "/", "1", "2", "A", "B", "C", "N",
      "\\", "a", "b", "c", "d", "e", "f", "g", "x", "y">>

CodePoint(c) == CHOOSE i \in 1..Len(CodePointOrder) : CodePointOrder[i] = c

\* a < b as Go compares strings
RECURSIVE StringLess(_, _)
StringLess(a, b) ==
    IF b = <<>> THEN FALSE
    ELSE IF a = <<>> THEN TRUE
    ELSE IF Head(a) = Head(b) THEN StringLess(Tail(a), Tail(b))
    ELSE CodePoint(Head(a)) < CodePoint(Head(b))

\* the keys of a map in the order encoding/json writes them
RECURSIVE SortedKeys(_)
SortedKeys(S) ==
    IF S = {} THEN <<>>
    ELSE LET m == CHOOSE k \in S : \A j \in S \ {k} : StringLess(k, j)
         IN  <<m>> \o SortedKeys(S \ {m})

jsonString(s) ==
    <<Quote>>
    \o Concat([i \in 1..Len(s) |->
                 IF s[i] = Quote THEN <<"\\", Quote>>
                 ELSE IF s[i] = "\\" THEN <<"\\", "\\">>
                 ELSE IF s[i] = NL THEN <<"\\", "n">>
                 ELSE <<s[i]>>])
    \o <<Quote>>

\* obj of renderJSON for row r: a later header overwrites an equal earlier one
jsonObject(opts, r) ==
    [h \in {opts.Headers[i] : i \in 1..Len(opts.Headers)} |->
        LET i == CHOOSE j \in 1..Len(opts.Headers) :
                     /\ opts.Headers[j] = h
                     /\ \A k \in (j + 1)..Len(opts.Headers) : opts.Headers[k] # h
        IN  IF i <= Len(r) THEN applyCellOpts(r[i], opts) ELSE <<>>]

\* json.MarshalIndent(result, "", "  ") of a []map[string]string
MarshalIndent(result) ==
    LET member(obj, k) ==
            <<" ", " ", " ", " ">> \o jsonString(k) \o <<":", " ">> \o jsonString(obj[k])
        object(obj) ==
            LET keys == SortedKeys(DOMAIN obj)
            IN  <<" ", " ", "{", NL>>
                \o Join([j \in 1..Len(keys) |-> member(obj, keys[j])], <<",", NL>>)
                \o <<NL, " ", " ", "}">>
    IN  IF result = <<>> THEN <<"[", "]">>
        ELSE <<"[", NL>>
             \o Join([k \in 1..Len(result) |-> object(result[k])], <<",", NL>>)
             \o <<NL, "]">>

\* renderJSON testing the headers only once it meets a row
renderJSON_ChecksInLoop(opts, rows) ==
    IF Len(opts.Headers) = 0 /\ Len(rows) > 0 THEN Result(<<>>, ErrMissingHeaders)
    ELSE LET result == [k \in 1..Len(rows) |-> jsonObject(opts, rows[k])]
         IN  Result(MarshalIndent(result) \o <<NL>>, ErrNil)

renderJSON(opts, rows) ==
    IF Len(opts.Headers) = 0 THEN Result(<<>>, ErrMissingHeaders)
    ELSE LET result == [k \in 1..Len(rows) |-> jsonObject(opts, rows[k])]
         IN  Result(MarshalIndent(result) \o <<NL>>, ErrNil)

render(opts, rows) ==
    IF opts.Format = FormatMarkdown THEN renderMarkdown(opts, rows)
    ELSE IF opts.Format = FormatCSV THEN renderCSV(opts, rows)
    ELSE IF opts.Format = FormatJSON THEN renderJSON(opts, rows)
    ELSE IF opts.Format = FormatSimple THEN renderSimple(opts, rows)
    ELSE renderPlain(opts, rows)

(***************************************************************************)
(* tablewriter.go: the Table and its methods, each a function of the       *)
(* Table it is called on to the Table it leaves and what it returns.       *)
(***************************************************************************)
New(opts) == [opts |-> opts, rows |-> <<>>]

\* AddRow without the len(Headers) > 0 test
AddRow_StrictOnEmptyHeaders(tb, cols) ==
    IF tb.opts.StrictColumnCount /\ Len(cols) # Len(tb.opts.Headers)
    THEN [t |-> tb, err |-> ErrColumnMismatch]
    ELSE [t |-> [tb EXCEPT !.rows = Append(@, cols)], err |-> ErrNil]

\* AddRow putting the new row first
AddRow_Prepends(tb, cols) ==
    IF /\ tb.opts.StrictColumnCount
       /\ Len(tb.opts.Headers) > 0
       /\ Len(cols) # Len(tb.opts.Headers)
    THEN [t |-> tb, err |-> ErrColumnMismatch]
    ELSE [t |-> [tb EXCEPT !.rows = <<cols>> \o @], err |-> ErrNil]

AddRow(tb, cols) ==
    IF /\ tb.opts.StrictColumnCount
       /\ Len(tb.opts.Headers) > 0
       /\ Len(cols) # Len(tb.opts.Headers)
    THEN [t |-> tb, err |-> ErrColumnMismatch]
    ELSE [t |-> [tb EXCEPT !.rows = Append(@, cols)], err |-> ErrNil]

\* AddRows going on after a rejected row, returning the first error at the end
RECURSIVE AddRows_SkipsRejected(_, _)
AddRows_SkipsRejected(tb, rows) ==
    IF rows = <<>> THEN [t |-> tb, err |-> ErrNil]
    ELSE LET ok == ~(/\ tb.opts.StrictColumnCount
                     /\ Len(tb.opts.Headers) > 0
                     /\ Len(Head(rows)) # Len(tb.opts.Headers))
             rest == AddRows_SkipsRejected(
                         IF ok THEN [tb EXCEPT !.rows = Append(@, Head(rows))] ELSE tb,
                         Tail(rows))
         IN  [t |-> rest.t, err |-> IF ok THEN rest.err ELSE ErrColumnMismatch]

RECURSIVE AddRows(_, _)
AddRows(tb, rows) ==
    IF rows = <<>> THEN [t |-> tb, err |-> ErrNil]
    ELSE LET r == AddRow(tb, Head(rows))
         IN  IF r.err # ErrNil THEN [t |-> r.t, err |-> r.err]
             ELSE AddRows(r.t, Tail(rows))

\* RenderErr consuming the rows it rendered
RenderErr_ConsumesRows(tb) ==
    [t |-> [tb EXCEPT !.rows = <<>>], out |-> render(tb.opts, tb.rows).out,
     err |-> render(tb.opts, tb.rows).err]

RenderErr(tb) == [t |-> tb, out |-> render(tb.opts, tb.rows).out,
                  err |-> render(tb.opts, tb.rows).err]

\* Render returning the error's text when rendering fails
TableRender_ErrorText(tb) ==
    [t |-> tb,
     out |-> IF render(tb.opts, tb.rows).err = ErrNil
             THEN render(tb.opts, tb.rows).out
             ELSE <<"e", "r", "r", "o", "r">>]

\* (t *Table).Render: s, _ := t.RenderErr(); return s
TableRender(tb) == [t |-> RenderErr(tb).t, out |-> RenderErr(tb).out]

Reset(tb) == [tb EXCEPT !.rows = <<>>]

RowCount(tb) == Len(tb.rows)

\* the package-level Render(opts, rows)
Render(opts, rows) == render(opts, rows)

(***************************************************************************)
(* The inputs the calls are made with.                                     *)
(***************************************************************************)
\* all sequences of length 0..n over S
SeqsUpTo(S, n) == UNION {[1..k -> S] : k \in 0..n}

ColumnNames == << <<"A">>, <<"B">>, <<"C">>, <<"N">> >>

\* the Options a Table of the store machine is built with
StoreOptions ==
    {[DefaultOptions EXCEPT !.Headers = SubSeq(ColumnNames, 1, k),
                            !.Format = f,
                            !.StrictColumnCount = s] :
        k \in 0..MaxCols, f \in Formats, s \in BOOLEAN}

StoreCells == {<<"x">>}
StoreRows == SeqsUpTo(StoreCells, MaxCols)

\* the arguments of a package-level Render call
RenderHeaderNames == << <<"B">>, <<"A">>, <<"C">>, <<"N">> >>
RenderCells == {<<>>, <<"a", "b", "c", "d", "e">>}
RenderRows == SeqsUpTo(RenderCells, MaxRenderCols)
RenderOptions ==
    {[Headers |-> SubSeq(RenderHeaderNames, 1, k), Format |-> f, Alignments |-> a,
      MaxColumnWidth |-> w, NullPlaceholder |-> p, StrictColumnCount |-> s] :
        k \in 0..MaxRenderCols, f \in Formats,
        a \in {<<>>, <<AlignCenter, AlignRight>>},
        w \in {0, 2, 4}, p \in {<<>>, <<"N", "/", "A">>}, s \in BOOLEAN}

\* the arguments of applyCellOpts on its own
CellValues == {SubSeq(<<"a", "b", "c", "d", "e", "f", "g", "x", "y">>, 1, k) : k \in 0..MaxCellLen}
Placeholders == {<<>>, <<"-">>, <<"N", "/", "A">>, <<"-", "-", "-", "-", "-", "-", "-">>}
CellOptions ==
    {[DefaultOptions EXCEPT !.MaxColumnWidth = w, !.NullPlaceholder = p] :
        w \in 0..MaxWidth, p \in Placeholders}

NoArg == [opts |-> DefaultOptions, rows |-> <<>>, v |-> <<>>, width |-> 0, col |-> 0]
NoRet == [out |-> <<>>, err |-> ErrNil, n |-> 0]

\* the rule of AddRow's documentation: the rows strict mode turns away
Rejects(opts, cols) ==
    opts.StrictColumnCount /\ opts.Headers # <<>> /\ Len(cols) # Len(opts.Headers)

\* the rows of rs before the first one Rejects turns away (all, if none)
AcceptedPrefix(opts, rs) ==
    LET bad == {k \in 1..Len(rs) : Rejects(opts, rs[k])}
    IN  IF bad = {} THEN rs
        ELSE SubSeq(rs, 1, (CHOOSE k \in bad : \A j \in bad : k <= j) - 1)

(***************************************************************************)
(* The store machine: one Table, made by New, and the calls on it.         *)
(* appended is a history variable: the rows the calls since the last Reset *)
(* were documented to accept.                                              *)
(***************************************************************************)
Init ==
    \E o \in StoreOptions :
        /\ t = New(o)
        /\ op = "New"
        /\ arg = [NoArg EXCEPT !.opts = o]
        /\ ret = NoRet
        /\ appended = <<>>

DoAddRow ==
    \E cols \in StoreRows :
        /\ Len(t.rows) < MaxRows
        /\ LET r == AddRow(t, cols)
           IN  /\ t' = r.t
               /\ ret' = [NoRet EXCEPT !.err = r.err]
        /\ op' = "AddRow"
        /\ arg' = [NoArg EXCEPT !.rows = <<cols>>]
        /\ appended' = IF Rejects(t.opts, cols) THEN appended ELSE Append(appended, cols)

DoAddRows ==
    \E rs \in SeqsUpTo(StoreRows, MaxRows) :
        /\ Len(t.rows) + Len(rs) <= MaxRows
        /\ LET r == AddRows(t, rs)
           IN  /\ t' = r.t
               /\ ret' = [NoRet EXCEPT !.err = r.err]
        /\ op' = "AddRows"
        /\ arg' = [NoArg EXCEPT !.rows = rs]
        /\ appended' = appended \o AcceptedPrefix(t.opts, rs)

DoRender ==
    /\ LET r == TableRender(t)
       IN  /\ t' = r.t
           /\ ret' = [NoRet EXCEPT !.out = r.out]
    /\ op' = "Render"
    /\ arg' = NoArg
    /\ UNCHANGED appended

DoRenderErr ==
    /\ LET r == RenderErr(t)
       IN  /\ t' = r.t
           /\ ret' = [NoRet EXCEPT !.out = r.out, !.err = r.err]
    /\ op' = "RenderErr"
    /\ arg' = NoArg
    /\ UNCHANGED appended

DoReset ==
    /\ t' = Reset(t)
    /\ op' = "Reset"
    /\ arg' = NoArg
    /\ ret' = NoRet
    /\ appended' = <<>>

DoRowCount ==
    /\ ret' = [NoRet EXCEPT !.n = RowCount(t)]
    /\ op' = "RowCount"
    /\ arg' = NoArg
    /\ UNCHANGED <<t, appended>>

Next ==
    \/ DoAddRow
    \/ DoAddRows
    \/ DoRender
    \/ DoRenderErr
    \/ DoReset
    \/ DoRowCount

Spec == Init /\ [][Next]_vars

(***************************************************************************)
(* The package-level Render, a pure function of its arguments: a call is   *)
(* pending with its arguments, then it has returned.                       *)
(***************************************************************************)
InitRender ==
    \E o \in RenderOptions, rs \in SeqsUpTo(RenderRows, MaxRenderRows) :
        /\ t = New(DefaultOptions)
        /\ op = "pending"
        /\ arg = [NoArg EXCEPT !.opts = o, !.rows = rs]
        /\ ret = NoRet
        /\ appended = <<>>

DoPkgRender ==
    /\ op = "pending"
    /\ LET r == Render(arg.opts, arg.rows)
       IN  ret' = [NoRet EXCEPT !.out = r.out, !.err = r.err]
    /\ op' = "tablewriter.Render"
    /\ UNCHANGED <<t, arg, appended>>

NextRender == DoPkgRender

SpecRender == InitRender /\ [][NextRender]_vars

(***************************************************************************)
(* applyCellOpts on its own.                                               *)
(***************************************************************************)
InitCell ==
    \E v \in CellValues, o \in CellOptions :
        /\ t = New(DefaultOptions)
        /\ op = "pending"
        /\ arg = [NoArg EXCEPT !.opts = o, !.v = v]
        /\ ret = NoRet
        /\ appended = <<>>

DoApplyCellOpts ==
    /\ op = "pending"
    /\ ret' = [NoRet EXCEPT !.out = applyCellOpts(arg.v, arg.opts)]
    /\ op' = "applyCellOpts"
    /\ UNCHANGED <<t, arg, appended>>

NextCell == DoApplyCellOpts

SpecCell == InitCell /\ [][NextCell]_vars

(***************************************************************************)
(* The claims.                                                             *)
(***************************************************************************)

\* C1: on a Table with StrictColumnCount and non-empty Headers, AddRow(cols)
\* with len(cols) # len(Headers) returns ErrColumnMismatch and leaves the
\* stored rows and RowCount as they were; in every other case AddRow returns
\* nil and RowCount grows by exactly 1.
C1_AddRowStrict ==
    [][op' = "AddRow" =>
        LET cols == arg'.rows[1]
        IN  IF /\ t.opts.StrictColumnCount
               /\ t.opts.Headers # <<>>
               /\ Len(cols) # Len(t.opts.Headers)
            THEN /\ ret'.err = ErrColumnMismatch
                 /\ t'.rows = t.rows
                 /\ RowCount(t') = RowCount(t)
            ELSE /\ ret'.err = ErrNil
                 /\ RowCount(t') = RowCount(t) + 1]_vars

\* a rejected AddRow on a Table that already holds rows
C1_Witness ==
    /\ op = "AddRow"
    /\ ret.err = ErrColumnMismatch
    /\ RowCount(t) > 0

\* C2: AddRows(rows) appends the rows in order and stops at the first row k
\* (0-based) AddRow rejects: it returns that error, rows 0..k-1 stay appended,
\* rows k..end are not appended and RowCount grows by exactly k; with no row
\* rejected it returns nil and RowCount grows by len(rows).
C2_AddRowsStopsAtFirstError ==
    [][op' = "AddRows" =>
        LET rs  == arg'.rows
            bad == {k \in 1..Len(rs) : Rejects(t.opts, rs[k])}
        IN  IF bad = {}
            THEN /\ ret'.err = ErrNil
                 /\ t'.rows = t.rows \o rs
                 /\ RowCount(t') = RowCount(t) + Len(rs)
            ELSE LET k == (CHOOSE i \in bad : \A j \in bad : i <= j) - 1
                 IN  /\ ret'.err = ErrColumnMismatch
                     /\ t'.rows = t.rows \o SubSeq(rs, 1, k)
                     /\ RowCount(t') = RowCount(t) + k]_vars

\* AddRows of three rows, the second rejected and the third acceptable: one
\* row is in the Table
C2_Witness ==
    /\ op = "AddRows"
    /\ ret.err = ErrColumnMismatch
    /\ Len(arg.rows) = 3
    /\ ~Rejects(t.opts, arg.rows[1])
    /\ Rejects(t.opts, arg.rows[2])
    /\ ~Rejects(t.opts, arg.rows[3])
    /\ t.rows = <<arg.rows[1]>>

C3_Inv ==
    /\ t.rows = appended
    /\ RowCount(t) = Len(appended)
    /\ (op = "RowCount" => ret.n = Len(appended))
    /\ (op \in {"New", "Reset"} => RowCount(t) = 0)

\* C3: after any sequence of calls on one Table the stored rows are the
\* cells of the successful appends since the last Reset (or New), in
\* insertion order, RowCount returns their number, it is 0 right after New
\* and right after Reset, and only Reset makes it smaller.
C3_RowsAreTheAppends ==
    /\ []C3_Inv
    /\ [][op' # "Reset" => RowCount(t') >= RowCount(t)]_vars

\* two different rows appended, in a Table that RowCount was just called on
C3_Witness ==
    /\ op = "RowCount"
    /\ ret.n >= 2
    /\ t.rows[1] # t.rows[2]

\* C4: Render, RenderErr and RowCount leave the rows and the options as they
\* were; Reset, AddRow and AddRows leave the options as they were; so Render
\* and RenderErr called one after the other return the same string (and the
\* same error), and RowCount stays.
C4_RenderIsReadOnly ==
    [][/\ op' \in {"Render", "RenderErr", "RowCount"} => t' = t
       /\ op' \in {"Reset", "AddRow", "AddRows"} => t'.opts = t.opts
       /\ (op \in {"Render", "RenderErr"} /\ op' \in {"Render", "RenderErr"}) =>
            /\ ret'.out = ret.out
            /\ (op' = op => ret'.err = ret.err)
            /\ RowCount(t') = RowCount(t)]_vars

\* a Table with rows has been rendered to a non-empty string
C4_Witness ==
    /\ op = "Render"
    /\ RowCount(t) > 0
    /\ ret.out # <<>>

\* what New(opts), AddRows(rows), RenderErr() return, the AddRows error first
ThrowawayStore(opts, rows) ==
    LET a == AddRows(New(opts), rows)
    IN  IF a.err # ErrNil THEN Result(<<>>, a.err)
        ELSE Result(RenderErr(a.t).out, RenderErr(a.t).err)

\* C5: the package-level Render(opts, rows) returns what New(opts), then
\* AddRows(rows), then RenderErr() return, for every opts and rows, also with
\* StrictColumnCount and a row whose length differs from the header count,
\* where the store yields ErrColumnMismatch.
C5_RenderIsThrowawayStore ==
    op = "tablewriter.Render" =>
        Result(ret.out, ret.err) = ThrowawayStore(arg.opts, arg.rows)

\* C6: rendering with Format = JSON and empty Headers fails with
\* ErrMissingHeaders for every row set, no rows included, and returns the
\* empty string; with non-empty Headers it returns a nil error.
C6_JSONNeedsHeaders ==
    (op = "tablewriter.Render" /\ arg.opts.Format = FormatJSON) =>
        IF arg.opts.Headers = <<>>
        THEN ret.err = ErrMissingHeaders /\ ret.out = <<>>
        ELSE ret.err = ErrNil

\* JSON without headers, rendered with no rows
C6_Witness ==
    /\ op = "tablewriter.Render"
    /\ arg.opts.Format = FormatJSON
    /\ arg.opts.Headers = <<>>
    /\ arg.rows = <<>>
    /\ ret.err = ErrMissingHeaders

HasPrefix(s, prefix) ==
    Len(s) >= Len(prefix) /\ SubSeq(s, 1, Len(prefix)) = prefix

ErrorPrefix ==
    <<"t", "a", "b", "l", "e", "w", "r", "i", "t", "e", "r", " ",
      "e", "r", "r", "o", "r", ":">>

\* C8: when RenderErr returns a non-nil error, Table.Render() returns a
\* string that starts with "tablewriter error:".
C8_RenderErrorPrefix ==
    (op = "Render" /\ RenderErr(t).err # ErrNil) => HasPrefix(ret.out, ErrorPrefix)

\* C9: with MaxColumnWidth = n and s the cell after the placeholder took the
\* place of an empty one: if len(s) > n > 3 the result has length n, ends
\* with "..." and starts with the first n-3 code points of s; if len(s) > n
\* and 0 < n <= 3 it is the first n code points of s; if n = 0 or
\* len(s) <= n it is s.
C9_CellNormalization ==
    op = "applyCellOpts" =>
        LET n == arg.opts.MaxColumnWidth
            s == IF arg.v = <<>> /\ arg.opts.NullPlaceholder # <<>>
                 THEN arg.opts.NullPlaceholder ELSE arg.v
            out == ret.out
        IN  /\ (Len(s) > n /\ n > 3) =>
                  /\ Len(out) = n
                  /\ SubSeq(out, n - 2, n) = Ellipsis
                  /\ SubSeq(out, 1, n - 3) = SubSeq(s, 1, n - 3)
            /\ (Len(s) > n /\ 0 < n /\ n <= 3) => out = SubSeq(s, 1, n)
            /\ (n = 0 \/ Len(s) <= n) => out = s

\* an empty cell whose placeholder is longer than a MaxColumnWidth above 3
C9_Witness ==
    /\ op = "applyCellOpts"
    /\ arg.v = <<>>
    /\ arg.opts.MaxColumnWidth > 3
    /\ Len(arg.opts.NullPlaceholder) > arg.opts.MaxColumnWidth
    /\ Len(ret.out) = arg.opts.MaxColumnWidth

\* C10: for Plain, Markdown and Simple, for every configuration and row set,
\* every rendered data cell, the cells of positions missing from a short row
\* and the empty cells the placeholder replaces included, is as wide as the
\* computed width of its column.
C10_DataCellWidth ==
    (op = "tablewriter.Render"
     /\ arg.opts.Format \in {FormatPlain, FormatMarkdown, FormatSimple}) =>
        LET widths == colWidths(arg.opts, arg.rows)
        IN  \A k \in 1..Len(arg.rows) : \A i \in 1..Len(widths) :
                RuneCountInString(dataCell(arg.opts, widths, arg.rows[k], i)) = widths[i]

(***************************************************************************)
(* Reading a JSON text as encoding/json writes it back into its objects:   *)
(* one member per line, "key": "value", between the lines of an object's   *)
(* braces.                                                                 *)
(***************************************************************************)
\* the lines of s: what stands before each newline, and a last unterminated one
RECURSIVE LinesFrom(_, _, _)
LinesFrom(s, i, line) ==
    IF i > Len(s) THEN (IF line = <<>> THEN <<>> ELSE <<line>>)
    ELSE IF s[i] = NL THEN <<line>> \o LinesFrom(s, i + 1, <<>>)
    ELSE LinesFrom(s, i + 1, Append(line, s[i]))

Lines(s) == LinesFrom(s, 1, <<>>)

\* the JSON string whose first code point after the opening quote is s[i],
\* unescaped, and the position after its closing quote
RECURSIVE ScanJSONString(_, _, _)
ScanJSONString(s, i, acc) ==
    IF i > Len(s) THEN [str |-> acc, next |-> i]
    ELSE IF s[i] = Quote THEN [str |-> acc, next |-> i + 1]
    ELSE IF s[i] = "\\" /\ i < Len(s)
         THEN ScanJSONString(s, i + 2,
                             Append(acc, IF s[i + 1] = "n" THEN NL ELSE s[i + 1]))
    ELSE ScanJSONString(s, i + 1, Append(acc, s[i]))

IsJSONMember(line) ==
    Len(line) >= 5 /\ SubSeq(line, 1, 5) = <<" ", " ", " ", " ", Quote>>

ParseJSONMember(line) ==
    LET k == ScanJSONString(line, 6, <<>>)
        v == ScanJSONString(line, k.next + 3, <<>>)
    IN  [key |-> k.str, value |-> v.str]

\* the objects of a JSON text, each the sequence of its members in the
\* order they are written
RECURSIVE ObjectsOf(_, _)
ObjectsOf(lines, objs) ==
    IF lines = <<>> THEN objs
    ELSE LET l == Head(lines)
         IN  IF l = <<" ", " ", "{">>
             THEN ObjectsOf(Tail(lines), Append(objs, <<>>))
             ELSE IF IsJSONMember(l) /\ objs # <<>>
             THEN ObjectsOf(Tail(lines),
                            [objs EXCEPT ![Len(objs)] = Append(@, ParseJSONMember(l))])
             ELSE ObjectsOf(Tail(lines), objs)

ParseJSONObjects(text) == ObjectsOf(Lines(text), <<>>)

\* C11: JSON rendering with non-empty headers gives one object per row, in
\* row order, whose key set is the header set and whose value for header i is
\* the normalised cell i of the row, a missing trailing cell being "" and then
\* normalised (so the placeholder, when one is configured); cells beyond the
\* header count are dropped.
C11_JSONObjects ==
    (op = "tablewriter.Render" /\ arg.opts.Format = FormatJSON
     /\ arg.opts.Headers # <<>>) =>
        LET objs == ParseJSONObjects(ret.out)
            hs == arg.opts.Headers
        IN  /\ Len(objs) = Len(arg.rows)
            /\ \A k \in 1..Len(objs) :
                 /\ {objs[k][j].key : j \in 1..Len(objs[k])} = {hs[i] : i \in 1..Len(hs)}
                 /\ \A i \in 1..Len(hs) : \E j \in 1..Len(objs[k]) :
                      /\ objs[k][j].key = hs[i]
                      /\ objs[k][j].value = applyCellOpts(cellAt(arg.rows[k], i), arg.opts)

\* C12: in JSON output the keys of every object are in the order of the
\* Headers sequence, and the output ends with exactly one newline.
C12_JSONKeyOrder ==
    (op = "tablewriter.Render" /\ arg.opts.Format = FormatJSON
     /\ arg.opts.Headers # <<>>) =>
        LET objs == ParseJSONObjects(ret.out)
            n == Len(ret.out)
        IN  /\ \A k \in 1..Len(objs) :
                 [j \in 1..Len(objs[k]) |-> objs[k][j].key] = arg.opts.Headers
            /\ n >= 2 /\ ret.out[n] = NL /\ ret.out[n - 1] # NL

(***************************************************************************)
(* CSV rendering of cells that hold commas, quotes and newlines, through   *)
(* the package-level Render.                                               *)
(***************************************************************************)
CSVCells == {<<>>, <<"a">>, <<Quote, ",", NL, "b">>}
CSVRows == SeqsUpTo(CSVCells, MaxCSVCols)
CSVOptions ==
    {[DefaultOptions EXCEPT !.Format = FormatCSV, !.Headers = h,
                            !.MaxColumnWidth = w, !.NullPlaceholder = p] :
        h \in {<<>>, << <<"A">>, <<"a", ",", "b">> >>},
        w \in {0, 2}, p \in {<<>>, <<"N", ",", "A">>}}

InitCSV ==
    \E o \in CSVOptions, rs \in SeqsUpTo(CSVRows, MaxCSVRows) :
        /\ t = New(DefaultOptions)
        /\ op = "pending"
        /\ arg = [NoArg EXCEPT !.opts = o, !.rows = rs]
        /\ ret = NoRet
        /\ appended = <<>>

SpecCSV == InitCSV /\ [][NextRender]_vars

(***************************************************************************)
(* Reading a CSV text per RFC 4180: fields between commas, records ended   *)
(* by a newline; a field that starts with a quote runs to its closing      *)
(* quote, a doubled quote inside it standing for one.  st is where the     *)
(* reader stands: at a field's start, in an unquoted field, in a quoted    *)
(* one, or after a quote met inside a quoted one.                          *)
(***************************************************************************)
Field(value, quoted) == [value |-> value, quoted |-> quoted]

RECURSIVE ReadCSV(_, _, _, _, _, _, _)
ReadCSV(s, i, st, f, rec, recs, ok) ==
    IF i > Len(s)
    THEN IF st = "start" /\ rec = <<>>
         THEN [records |-> recs, terminated |-> TRUE, ok |-> ok]
         ELSE [records |-> Append(recs, Append(rec, f)), terminated |-> FALSE, ok |-> ok]
    ELSE LET c == s[i]
             fresh == Field(<<>>, FALSE)
         IN  IF st = "quoted"
             THEN IF c = Quote
                  THEN ReadCSV(s, i + 1, "quote", f, rec, recs, ok)
                  ELSE ReadCSV(s, i + 1, "quoted", Field(Append(f.value, c), TRUE),
                               rec, recs, ok)
             ELSE IF st = "quote" /\ c = Quote
             THEN ReadCSV(s, i + 1, "quoted", Field(Append(f.value, c), TRUE),
                          rec, recs, ok)
             ELSE IF c = ","
             THEN ReadCSV(s, i + 1, "start", fresh, Append(rec, f), recs, ok)
             ELSE IF c = NL
             THEN ReadCSV(s, i + 1, "start", fresh, <<>>,
                          Append(recs, Append(rec, f)), ok)
             ELSE IF st = "start" /\ c = Quote
             THEN ReadCSV(s, i + 1, "quoted", Field(<<>>, TRUE), rec, recs, ok)
             ELSE ReadCSV(s, i + 1, "unquoted", Field(Append(f.value, c), f.quoted),
                          rec, recs, ok /\ st # "quote" /\ c # Quote)

ParseCSV(text) == ReadCSV(text, 1, "start", Field(<<>>, FALSE), <<>>, <<>>, TRUE)

\* the values of a record's fields
Values(rec) == [j \in 1..Len(rec) |-> rec[j].value]

NormalizedRow(opts, r) == [i \in 1..Len(r) |-> applyCellOpts(r[i], opts)]

\* the records of a CSV output are the header, when there is one, and then
\* one record per row, whose values are expected(row); every field is
\* quoted exactly when it holds a comma, a quote or a newline, and every
\* record ends with a newline
CSVReadsBackAs(expected(_)) ==
    LET csv == ParseCSV(ret.out)
        h == IF arg.opts.Headers # <<>> THEN 1 ELSE 0
    IN  /\ csv.ok /\ csv.terminated
        /\ Len(csv.records) = h + Len(arg.rows)
        /\ h = 1 => Values(csv.records[1]) = arg.opts.Headers
        /\ \A k \in 1..Len(arg.rows) :
             Values(csv.records[h + k]) = expected(arg.rows[k])
        /\ \A k \in 1..Len(csv.records) : \A j \in 1..Len(csv.records[k]) :
             csv.records[k][j].quoted <=>
                 ContainsAny(csv.records[k][j].value, {",", Quote, NL})

\* C13 as claimed: for every row, reading its CSV line back per RFC 4180
\* gives exactly the row's normalised cells; a cell is quoted, its quotes
\* doubled, if and only if it holds a comma, a quote or a newline; every
\* record (the header, only with non-empty headers, and each row) ends with a
\* newline.
C13_CSVRoundTrip ==
    (op = "tablewriter.Render" /\ arg.opts.Format = FormatCSV) =>
        LET expected(r) == NormalizedRow(arg.opts, r)
        IN  CSVReadsBackAs(expected)

\* C13 as amended: the same for every row that has at least one cell; a row
\* without cells is rendered as an empty line, which reads back as one empty
\* cell.
C13_CSVRoundTripNonEmptyRows ==
    (op = "tablewriter.Render" /\ arg.opts.Format = FormatCSV) =>
        LET expected(r) == IF r = <<>> THEN << <<>> >> ELSE NormalizedRow(arg.opts, r)
        IN  CSVReadsBackAs(expected)

\* a header with a comma, and a row whose cell with a quote, a comma and a
\* newline comes back whole
C13_Witness ==
    /\ op = "tablewriter.Render"
    /\ arg.opts.Format = FormatCSV
    /\ arg.opts.Headers # <<>>
    /\ arg.opts.MaxColumnWidth = 0
    /\ Len(arg.rows) = 2
    /\ arg.rows[2] = << <<"a">>, <<Quote, ",", NL, "b">> >>
    /\ Values(ParseCSV(ret.out).records[3]) = arg.rows[2]

\* C15: Plain, Markdown, CSV and Simple rendering return a nil error for
\* every input, and Plain, Markdown and Simple return the empty string
\* whenever there is no column: no header and no cell in any row.
C15_NoErrorAndEmptyForNoColumns ==
    (op = "tablewriter.Render"
     /\ arg.opts.Format \in {FormatPlain, FormatMarkdown, FormatCSV, FormatSimple}) =>
        /\ ret.err = ErrNil
        /\ (/\ arg.opts.Format # FormatCSV
            /\ arg.opts.Headers = <<>>
            /\ \A k \in 1..Len(arg.rows) : arg.rows[k] = <<>>) => ret.out = <<>>

\* rows without cells and no header, rendered as Simple to the empty string
C15_Witness ==
    /\ op = "tablewriter.Render"
    /\ arg.opts.Format = FormatSimple
    /\ arg.opts.Headers = <<>>
    /\ arg.rows = << <<>>, <<>> >>
    /\ ret.out = <<>>
    /\ ret.err = ErrNil

(***************************************************************************)
(* alignCell on its own, with the alignment getAlign finds for a column.   *)
(***************************************************************************)
AlignOptions ==
    {[DefaultOptions EXCEPT !.Alignments = a] : a \in SeqsUpTo(Alignment, MaxAligns)}

InitAlign ==
    \E s \in CellValues, w \in 0..MaxWidth, o \in AlignOptions, c \in 1..(MaxAligns + 1) :
        /\ t = New(DefaultOptions)
        /\ op = "pending"
        /\ arg = [NoArg EXCEPT !.opts = o, !.v = s, !.width = w, !.col = c]
        /\ ret = NoRet
        /\ appended = <<>>

DoAlignCell ==
    /\ op = "pending"
    /\ ret' = [NoRet EXCEPT !.out = alignCell(arg.v, arg.width, getAlign(arg.opts, arg.col))]
    /\ op' = "alignCell"
    /\ UNCHANGED <<t, arg, appended>>

NextAlign == DoAlignCell

SpecAlign == InitAlign /\ [][NextAlign]_vars

Spaces(n) == [i \in 1..n |-> " "]

\* C16: a cell s aligned to width w is s when len(s) >= w; otherwise, with
\* d = w - len(s), Left appends d spaces, Right prepends d spaces and Center
\* prepends floor(d/2) and appends d - floor(d/2) spaces; the alignment of
\* column i is Alignments[i] when i < len(Alignments) and Left otherwise.
C16_Alignment ==
    op = "alignCell" =>
        LET s == arg.v
            w == arg.width
            d == w - Len(s)
            a == IF arg.col <= Len(arg.opts.Alignments)
                 THEN arg.opts.Alignments[arg.col] ELSE AlignLeft
        IN  IF Len(s) >= w THEN ret.out = s
            ELSE /\ a = AlignLeft => ret.out = s \o Spaces(d)
                 /\ a = AlignRight => ret.out = Spaces(d) \o s
                 /\ a = AlignCenter =>
                      ret.out = Spaces(d \div 2) \o s \o Spaces(d - (d \div 2))

\* a centred cell three short of its width: one space before, two after
C16_Witness ==
    /\ op = "alignCell"
    /\ arg.col <= Len(arg.opts.Alignments)
    /\ arg.opts.Alignments[arg.col] = AlignCenter
    /\ arg.width - Len(arg.v) = 3
    /\ arg.v # <<>>
    /\ ret.out = <<" ">> \o arg.v \o <<" ", " ">>

====
